---- MODULE Spec2Model ----
(***************************************************************************)
(* State-machine model of src/UseGEE_Download_S2_Imgs.py:                  *)
(*   Sentinel2_TOA_Download   the scene loop (coverage, export, crop)      *)
(*   Process_Downloaded_Imgs  the one-pixel border crop of a written file  *)
(*                                                                         *)
(* Units.  Longitudes and latitudes of the AOI are integers in             *)
(* millidegrees, resample_resolution is an integer in 1e-8 degrees,        *)
(* timestamps are epoch milliseconds.  A coverage ratio is the pair        *)
(* <<valid_pixels_num, total_pixels_num>> and a threshold the pair         *)
(* <<numerator, denominator>>; they are compared as fractions.             *)
(***************************************************************************)
EXTENDS Integers, Sequences, FiniteSets, TLC

VARIABLES
    params,           \* the arguments of Sentinel2_TOA_Download
    imgs_list,        \* the filtered, time-sorted collection of the provider
    img_idx,          \* loop index (0-based, as range(imgs_num))
    coverage_ratio,   \* local of the current iteration
    timestamp,        \* local: system:time_start of the accepted scene
    crsTransform,     \* local: affine parameters handed to export and crop
    download_path,    \* local: destination file of the accepted scene
    files,            \* the file system: path -> raster, for the files present
    log,              \* what the run has done so far, in order
    pc                \* position of the interpreter

vars == <<params, imgs_list, img_idx, coverage_ratio, timestamp, crsTransform,
          download_path, files, log, pc>>

-----------------------------------------------------------------------------
(* Bounds of the model *)

MaxImgs == 2        \* scenes returned by the provider
MaxBands == 2       \* bands of a raster given directly to the crop
MaxDim == 4         \* rows / columns of a raster given directly to the crop

(* Program constants *)

LonMin == 116480             \* lon_min = 116.48
LatMax == 31220              \* lat_max = 31.22
DefaultResolution == 8983    \* resample_resolution = 0.00008983

None == "None"
Range(s) == {s[i] : i \in 1..Len(s)}

(* Inputs the model enumerates *)

BandLists == {<<"B2", "B3", "B4", "B8">>, <<"B3", "B2">>, <<"B3", "B4">>}
Thresholds == {<<1, 2>>, <<99, 100>>, <<991, 1000>>}
Coverages == {<<50, 100>>, <<99, 100>>, <<100, 100>>}
TimeStarts == {1000, 1500, 2000}
Resolutions == {-DefaultResolution, DefaultResolution}
ExportShapes == {<<2, 3>>, <<3, 4>>}
DTypes == {"float32", "float64"}
Folder == "download_folderpath"

-----------------------------------------------------------------------------
(* Rasters: numpy arrays of shape (count, height, width) plus the profile *)

Cells(count, height, width) ==
    (0..(count - 1)) \X (0..(height - 1)) \X (0..(width - 1))

\* The pixel the provider stores at (band k, row r, column c) of scene idx.
PixelValue(idx, k, r, c) == 1000 * idx + 100 * k + 10 * r + c

\* Length of a numpy axis of length n after the slice 1:-1.
SliceLen(n) == IF n - 2 > 0 THEN n - 2 ELSE 0

\* Mutant: the slice taken as [:, :-2, 1:-1].
CropBorderFromTop(arr) ==
    [count  |-> arr.count,
     height |-> SliceLen(arr.height),
     width  |-> SliceLen(arr.width),
     dtype  |-> arr.dtype,
     data   |-> [p \in Cells(arr.count, SliceLen(arr.height), SliceLen(arr.width))
                   |-> arr.data[<<p[1], p[2], p[3] + 1>>]]]

\* download_data[:, 1:-1, 1:-1]
CropBorder(arr) ==
    [count  |-> arr.count,
     height |-> SliceLen(arr.height),
     width  |-> SliceLen(arr.width),
     dtype  |-> arr.dtype,
     data   |-> [p \in Cells(arr.count, SliceLen(arr.height), SliceLen(arr.width))
                   |-> arr.data[<<p[1], p[2] + 1, p[3] + 1>>]]]

\* rasterio.transform.Affine(*crsTransform)
Affine(t) == t

\* The profile dict and the array handed to rasterio's writer.
Profile(t, arr) ==
    [driver    |-> "GTiff",
     dtype     |-> arr.dtype,
     nodata    |-> None,
     width     |-> arr.width,
     height    |-> arr.height,
     count     |-> arr.count,
     crs       |-> "EPSG:4326",
     transform |-> Affine(t),
     compress  |-> "lzw",
     data      |-> arr.data]

\* src.read(): the array of a stored raster.
ReadArray(raster) ==
    [count  |-> raster.count,
     height |-> raster.height,
     width  |-> raster.width,
     dtype  |-> raster.dtype,
     data   |-> raster.data]

\* What Process_Downloaded_Imgs hands to the writer for the file it has read.
ProcessedRaster(t, raster) == Profile(t, CropBorder(ReadArray(raster)))

\* GDAL refuses to create a dataset with a zero width or height.
Creatable(raster) == raster.width >= 1 /\ raster.height >= 1

\* Affine pixel -> geographic coordinate, t = (sx, x_shear, ox, y_shear, sy, oy).
PixelToGeo(t, row, col) ==
    <<t[1] * col + t[2] * row + t[3], t[4] * col + t[5] * row + t[6]>>

-----------------------------------------------------------------------------
(* Pure parts of Sentinel2_TOA_Download *)

\* The band the coverage count is taken on.
ReferenceBand == "B2"

\* Mutant: the comparison made strict.
MeetsThresholdStrict(ratio, threshold) ==
    ratio[1] * threshold[2] > threshold[1] * ratio[2]

\* coverage_ratio >= coverage_ratio_threshold, both as fractions.
MeetsThreshold(ratio, threshold) ==
    ratio[1] * threshold[2] >= threshold[1] * ratio[2]

\* Mutant: the sign of y_scale lost.
CrsTransformPositiveY(resample_resolution, lon_min, lat_max) ==
    <<resample_resolution, 0, lon_min, 0, resample_resolution, lat_max>>

\* (resample_resolution, 0, lon_min, 0, -resample_resolution, lat_max)
CrsTransformOf(resample_resolution, lon_min, lat_max) ==
    <<resample_resolution, 0, lon_min, 0, -resample_resolution, lat_max>>

\* f'{x:.2f}' of a coordinate in millidegrees: the nearest centidegree.
Fmt2f(x) == IF x >= 0 THEN (x + 5) \div 10 ELSE -((5 - x) \div 10)

\* datetime.fromtimestamp(timestamp / 1000).strftime('%Y-%m-%d %H:%M:%S'):
\* the whole second the millisecond timestamp lies in (the offset of the local
\* time zone is the same for every scene of a run and is left out).
DateTimeStr(ts) == ts \div 1000

\* folder + '\\' + 'Sentinel2' + '_' + lon + 'E_' + lat + 'N_' + date + '.tif'
DownloadPathOf(folder, lon_min, lat_max, ts) ==
    <<folder, "Sentinel2", Fmt2f(lon_min), "E", Fmt2f(lat_max), "N",
      DateTimeStr(ts), ".tif">>

\* The file geemap.download_ee_image leaves at filename for scene idx.
DownloadedRaster(idx, bands, shape, t) ==
    [driver    |-> "GTiff",
     dtype     |-> "float64",
     nodata    |-> "nan",
     width     |-> shape[2],
     height    |-> shape[1],
     count     |-> Len(bands),
     crs       |-> "EPSG:4326",
     transform |-> t,
     compress  |-> "deflate",
     data      |-> [p \in Cells(Len(bands), shape[1], shape[2])
                      |-> PixelValue(idx, p[1], p[2], p[3])]]

\* The file system after path is (over)written with raster.
WriteFile(fs, path, raster) ==
    [p \in DOMAIN fs \cup {path} |-> IF p = path THEN raster ELSE fs[p]]

\* The file system after path is deleted.
DeleteFile(fs, path) == [p \in DOMAIN fs \ {path} |-> fs[p]]

\* The provider's answer: scenes sorted by system:time_start.
Scenes == [time_start : TimeStarts, coverage : Coverages]

IsSorted(s) == \A i \in 1..(Len(s) - 1) : s[i].time_start <= s[i + 1].time_start

\* Mutant: the collection taken without .sort('system:time_start').
CollectionsUnsorted == UNION {[1..n -> Scenes] : n \in 0..MaxImgs}

Collections ==
    {s \in UNION {[1..n -> Scenes] : n \in 0..MaxImgs} : IsSorted(s)}

imgs_num == Len(imgs_list)

Event(op, fields) == [op |-> op] @@ fields

-----------------------------------------------------------------------------
(* Process_Downloaded_Imgs(crsTransform, download_path) *)

\* The call returns: the file is replaced by its cropped interior, written
\* with the transform the caller passed.
Process_Downloaded_Imgs(t, path, idx) ==
    /\ path \in DOMAIN files
    /\ Creatable(ProcessedRaster(t, files[path]))
    /\ files' = WriteFile(files, path, ProcessedRaster(t, files[path]))
    /\ log' = Append(log, Event("postprocess",
                  [idx |-> idx, path |-> path, transform |-> t,
                   src |-> files[path]]))

\* The call raises in rasterio's writer: always when the cropped array has a
\* zero dimension, possibly otherwise (destination unwritable).  Opening for
\* writing may already have removed the existing file.
Process_Downloaded_Imgs_Raises(t, path, idx) ==
    /\ path \in DOMAIN files
    /\ \E removed \in BOOLEAN :
          /\ files' = IF removed THEN DeleteFile(files, path) ELSE files
          /\ log' = Append(log, Event("raise",
                        [idx |-> idx, path |-> path, error |-> "RasterioIOError",
                         stage |-> "postprocess",
                         src |-> files[path], removed |-> removed,
                         attempted |-> ProcessedRaster(t, files[path])]))

-----------------------------------------------------------------------------
(* Sentinel2_TOA_Download *)

Init ==
    /\ params \in [lon_min : {LonMin}, lat_max : {LatMax},
                   download_folderpath : {Folder},
                   bands : BandLists,
                   coverage_ratio_threshold : Thresholds,
                   resample_resolution : Resolutions,
                   is_postprocess : BOOLEAN]
    /\ imgs_list \in Collections
    /\ img_idx = 0
    /\ coverage_ratio = None
    /\ timestamp = None
    /\ crsTransform = None
    /\ download_path = None
    /\ files = <<>>
    /\ log = <<>>
    /\ pc = "loop"

Scene == imgs_list[img_idx + 1]

\* Lines 108-123: the coverage ratio of scene img_idx is computed.
EvaluateCoverage ==
    /\ pc = "loop"
    /\ img_idx < imgs_num
    /\ ReferenceBand \in Range(params.bands)
    /\ coverage_ratio' = Scene.coverage
    /\ log' = Append(log, Event("evaluate",
                  [idx |-> img_idx, band |-> ReferenceBand,
                   ratio |-> Scene.coverage]))
    /\ pc' = "decide"
    /\ UNCHANGED <<params, imgs_list, img_idx, timestamp, crsTransform,
                   download_path, files>>

\* Line 122: getInfo() raises because the selected image has no band 'B2'.
EvaluateInvalidBand ==
    /\ pc = "loop"
    /\ img_idx < imgs_num
    /\ ReferenceBand \notin Range(params.bands)
    /\ log' = Append(log, Event("raise",
                  [idx |-> img_idx, error |-> "EEException: no band",
                   stage |-> "evaluate",
                   band |-> ReferenceBand]))
    /\ pc' = "aborted"
    /\ UNCHANGED <<params, imgs_list, img_idx, coverage_ratio, timestamp,
                   crsTransform, download_path, files>>

\* Line 122: getInfo() raises because the provider call fails.
EvaluateProviderFails ==
    /\ pc = "loop"
    /\ img_idx < imgs_num
    /\ log' = Append(log, Event("raise",
                  [idx |-> img_idx, error |-> "ProviderUnavailable",
                   stage |-> "evaluate"]))
    /\ pc' = "aborted"
    /\ UNCHANGED <<params, imgs_list, img_idx, coverage_ratio, timestamp,
                   crsTransform, download_path, files>>

\* Lines 126-141: the scene meets the threshold.
Accept ==
    /\ pc = "decide"
    /\ MeetsThreshold(coverage_ratio, params.coverage_ratio_threshold)
    /\ timestamp' = Scene.time_start
    /\ crsTransform' = CrsTransformOf(params.resample_resolution,
                                      params.lon_min, params.lat_max)
    /\ download_path' = DownloadPathOf(params.download_folderpath, params.lon_min,
                                       params.lat_max, Scene.time_start)
    /\ log' = Append(log, Event("accept", [idx |-> img_idx,
                                           ratio |-> coverage_ratio]))
    /\ pc' = "download"
    /\ UNCHANGED <<params, imgs_list, img_idx, coverage_ratio, files>>

\* Lines 155-157: the scene is skipped.
Reject ==
    /\ pc = "decide"
    /\ ~MeetsThreshold(coverage_ratio, params.coverage_ratio_threshold)
    /\ log' = Append(log, Event("reject", [idx |-> img_idx,
                                           ratio |-> coverage_ratio]))
    /\ img_idx' = img_idx + 1
    /\ pc' = "loop"
    /\ UNCHANGED <<params, imgs_list, coverage_ratio, timestamp, crsTransform,
                   download_path, files>>

\* Lines 142-149: geemap.download_ee_image returns with the file written; a
\* file already at filename is replaced.
Download ==
    /\ pc = "download"
    /\ \E shape \in ExportShapes :
          files' = WriteFile(files, download_path,
                       DownloadedRaster(img_idx, params.bands, shape, crsTransform))
    /\ log' = Append(log, Event("export",
                  [idx |-> img_idx, path |-> download_path,
                   transform |-> crsTransform, timestamp |-> timestamp,
                   existed |-> download_path \in DOMAIN files]))
    /\ pc' = "downloaded"
    /\ UNCHANGED <<params, imgs_list, img_idx, coverage_ratio, timestamp,
                   crsTransform, download_path>>

\* Lines 142-149: geemap.download_ee_image raises.
DownloadFails ==
    /\ pc = "download"
    /\ log' = Append(log, Event("raise",
                  [idx |-> img_idx, error |-> "ExportFailed",
                   stage |-> "export"]))
    /\ pc' = "aborted"
    /\ UNCHANGED <<params, imgs_list, img_idx, coverage_ratio, timestamp,
                   crsTransform, download_path, files>>

\* Mutant: the is_postprocess flag ignored.
PostProcessAlways ==
    /\ pc = "downloaded"
    /\ Process_Downloaded_Imgs(crsTransform, download_path, img_idx)
    /\ img_idx' = img_idx + 1
    /\ pc' = "loop"
    /\ UNCHANGED <<params, imgs_list, coverage_ratio, timestamp, crsTransform,
                   download_path>>

\* Lines 152-153: the downloaded file is cropped, then the next iteration.
PostProcess ==
    /\ pc = "downloaded"
    /\ params.is_postprocess
    /\ Process_Downloaded_Imgs(crsTransform, download_path, img_idx)
    /\ img_idx' = img_idx + 1
    /\ pc' = "loop"
    /\ UNCHANGED <<params, imgs_list, coverage_ratio, timestamp, crsTransform,
                   download_path>>

\* Lines 152-153: the crop raises and the exception leaves the function.
PostProcessRaises ==
    /\ pc = "downloaded"
    /\ params.is_postprocess
    /\ Process_Downloaded_Imgs_Raises(crsTransform, download_path, img_idx)
    /\ pc' = "aborted"
    /\ UNCHANGED <<params, imgs_list, img_idx, coverage_ratio, timestamp,
                   crsTransform, download_path>>

\* Line 152 with is_postprocess false: straight to the next iteration.
SkipPostProcess ==
    /\ pc = "downloaded"
    /\ ~params.is_postprocess
    /\ img_idx' = img_idx + 1
    /\ pc' = "loop"
    /\ UNCHANGED <<params, imgs_list, coverage_ratio, timestamp, crsTransform,
                   download_path, files, log>>

\* Line 106: range(imgs_num) is exhausted and the function returns.
LoopExit ==
    /\ pc = "loop"
    /\ img_idx = imgs_num
    /\ pc' = "done"
    /\ UNCHANGED <<params, imgs_list, img_idx, coverage_ratio, timestamp,
                   crsTransform, download_path, files, log>>

Next ==
    \/ EvaluateCoverage
    \/ EvaluateInvalidBand
    \/ EvaluateProviderFails
    \/ Accept
    \/ Reject
    \/ Download
    \/ DownloadFails
    \/ PostProcess
    \/ PostProcessRaises
    \/ SkipPostProcess
    \/ LoopExit

Spec == Init /\ [][Next]_vars

-----------------------------------------------------------------------------
(* Process_Downloaded_Imgs called on its own, on any stored raster *)

DirectPath == <<Folder, "downloaded", ".tif">>

\* Rasters a caller may hold on disk: any band count, shape and dtype.
StoredRasters ==
    {[driver    |-> "GTiff",
      dtype     |-> d,
      nodata    |-> "nan",
      width     |-> w,
      height    |-> h,
      count     |-> b,
      crs       |-> "EPSG:4326",
      transform |-> <<1, 0, 0, 0, -1, 0>>,
      compress  |-> "deflate",
      data      |-> [p \in Cells(b, h, w) |-> PixelValue(0, p[1], p[2], p[3])]] :
        b \in 1..MaxBands, h \in 1..MaxDim, w \in 1..MaxDim, d \in DTypes}

\* Affine parameters a caller may pass: T = (sx, 0, ox, 0, sy, oy).
DirectTransforms ==
    {<<sx, 0, ox, 0, sy, oy>> :
        sx \in {1, 2}, ox \in {10}, sy \in {-1, -2}, oy \in {20}}

InitDirect ==
    /\ params = [lon_min |-> LonMin, lat_max |-> LatMax,
                 download_folderpath |-> Folder,
                 bands |-> <<"B2", "B3", "B4", "B8">>,
                 coverage_ratio_threshold |-> <<99, 100>>,
                 resample_resolution |-> DefaultResolution,
                 is_postprocess |-> TRUE]
    /\ imgs_list = <<>>
    /\ img_idx = 0
    /\ coverage_ratio = None
    /\ timestamp = None
    /\ crsTransform \in DirectTransforms
    /\ download_path = DirectPath
    /\ files \in {WriteFile(<<>>, DirectPath, r) : r \in StoredRasters}
    /\ log = <<>>
    /\ pc = "call"

\* The call returns.
DirectCall ==
    /\ pc = "call"
    /\ Process_Downloaded_Imgs(crsTransform, download_path, img_idx)
    /\ pc' = "returned"
    /\ UNCHANGED <<params, imgs_list, img_idx, coverage_ratio, timestamp,
                   crsTransform, download_path>>

\* The call raises.
DirectCallRaises ==
    /\ pc = "call"
    /\ Process_Downloaded_Imgs_Raises(crsTransform, download_path, img_idx)
    /\ pc' = "raised"
    /\ UNCHANGED <<params, imgs_list, img_idx, coverage_ratio, timestamp,
                   crsTransform, download_path>>

NextDirect == DirectCall \/ DirectCallRaises

SpecDirect == InitDirect /\ [][NextDirect]_vars

-----------------------------------------------------------------------------
(* Properties *)

LogIdx == 1..Len(log)
IsOp(n, op) == log[n].op = op
IsCrop(n) ==
    \/ IsOp(n, "postprocess")
    \/ IsOp(n, "raise") /\ log[n].stage = "postprocess"
CoverageOf(idx) == imgs_list[idx + 1].coverage
AtLeast(ratio, threshold) == ratio[1] * threshold[2] >= ratio[2] * threshold[1]
Terminated == pc \in {"done", "aborted"}

\* C1: a scene whose coverage ratio was computed is accepted, and then
\* exported, if and only if the ratio is greater than or equal to
\* coverage_ratio_threshold; a ratio equal to the threshold is accepted and a
\* ratio below it is never exported.
C1_AcceptIffRatioAtLeastThreshold ==
    \A n \in LogIdx :
        /\ IsOp(n, "accept") =>
              AtLeast(CoverageOf(log[n].idx), params.coverage_ratio_threshold)
        /\ IsOp(n, "reject") =>
              ~AtLeast(CoverageOf(log[n].idx), params.coverage_ratio_threshold)
        /\ IsOp(n, "export") =>
              AtLeast(CoverageOf(log[n].idx), params.coverage_ratio_threshold)
        /\ (IsOp(n, "evaluate") /\ n < Len(log)) =>
              /\ log[n + 1].op \in {"accept", "reject"}
              /\ log[n + 1].idx = log[n].idx
              /\ log[n + 1].ratio = CoverageOf(log[n].idx)

\* C1 witness: a scene exactly at the threshold has been exported and a scene
\* below the threshold has been rejected.
C1_Witness ==
    /\ \E n \in LogIdx :
          /\ IsOp(n, "export")
          /\ CoverageOf(log[n].idx)[1] * params.coverage_ratio_threshold[2]
                = CoverageOf(log[n].idx)[2] * params.coverage_ratio_threshold[1]
    /\ \E n \in LogIdx : IsOp(n, "reject")

\* C2: exports happen in enumeration order, which is ascending acquisition
\* time; an earlier accepted scene's export and crop are complete before a
\* later accepted scene's export, and each export carries the timestamp of its
\* own scene, in the event and in the file name.
C2_ExportsInAcquisitionOrder ==
    /\ \A n \in LogIdx : IsOp(n, "export") =>
          /\ log[n].timestamp = imgs_list[log[n].idx + 1].time_start
          /\ log[n].path[7] = imgs_list[log[n].idx + 1].time_start \div 1000
    /\ \A n \in LogIdx : \A m \in LogIdx :
          (n < m /\ IsOp(n, "export") /\ IsOp(m, "export")) =>
              /\ log[n].idx < log[m].idx
              /\ log[n].timestamp <= log[m].timestamp
              /\ params.is_postprocess =>
                    \E k \in (n + 1)..(m - 1) :
                        IsOp(k, "postprocess") /\ log[k].idx = log[n].idx

\* C2 witness: two scenes with different acquisition times were exported and
\* the first was cropped in between.
C2_Witness ==
    \E n \in LogIdx : \E m \in LogIdx :
        /\ n < m
        /\ IsOp(n, "export") /\ IsOp(m, "export")
        /\ log[n].timestamp < log[m].timestamp
        /\ \E k \in (n + 1)..(m - 1) : IsOp(k, "postprocess")

\* C3: after the crop, the transform written with the cropped buffer has the
\* origin (ox+sx, oy+sy) of the transform T it was called with, so pixel (0,0)
\* of the written raster maps to where pixel (1,1) of the original maps by T.
C3_WrittenOriginShiftedByOnePixel ==
    \A n \in LogIdx : (IsOp(n, "postprocess") /\ n = Len(log)) =>
        LET t == log[n].transform
            w == files[log[n].path].transform
        IN  /\ w[3] = t[3] + t[1]
            /\ w[6] = t[6] + t[5]
            /\ PixelToGeo(w, 0, 0) = PixelToGeo(t, 1, 1)

\* C4: a failure on one candidate does not end the run: when the run has
\* ended, the evaluation of every candidate of the enumeration was started.
C4_EveryCandidateEvaluatedDespiteFailures ==
    Terminated =>
        \A i \in 0..(imgs_num - 1) :
            \E n \in LogIdx :
                /\ log[n].idx = i
                /\ \/ IsOp(n, "evaluate")
                   \/ IsOp(n, "raise") /\ log[n].stage = "evaluate"

\* C5: a crop of a raster of shape (b, h, w) with h >= 3 and w >= 3 writes a
\* raster of shape (b, h-2, w-2) with the same dtype whose pixel (k, r, c) is
\* the input's pixel (k, r+1, c+1), and holds no other pixel.
C5_CropKeepsInterior ==
    \A n \in LogIdx :
        (IsOp(n, "postprocess") /\ n = Len(log)
            /\ log[n].src.height >= 3 /\ log[n].src.width >= 3) =>
        LET src == log[n].src
            out == files[log[n].path]
        IN  /\ out.count = src.count
            /\ out.height = src.height - 2
            /\ out.width = src.width - 2
            /\ out.dtype = src.dtype
            /\ DOMAIN out.data =
                  (0..(src.count - 1)) \X (0..(src.height - 3))
                      \X (0..(src.width - 3))
            /\ \A p \in DOMAIN out.data :
                  out.data[p] = src.data[<<p[1], p[2] + 1, p[3] + 1>>]

\* C5 witness: a two-band 4x3 raster has been cropped.
C5_Witness ==
    /\ pc = "returned"
    /\ log[1].src.count = 2
    /\ log[1].src.height = 4
    /\ log[1].src.width = 3
    /\ files[DirectPath].height = 2

\* C6: on a raster with height < 3 or width < 3 the crop fails with
\* BufferTooSmall and leaves the downloaded file as it was.
C6_TooSmallFailsBeforeOutput ==
    \A n \in LogIdx :
        (IsCrop(n) /\ n = Len(log)
            /\ (log[n].src.height < 3 \/ log[n].src.width < 3)) =>
        /\ IsOp(n, "raise")
        /\ log[n].error = "BufferTooSmall"
        /\ log[n].path \in DOMAIN files
        /\ files[log[n].path] = log[n].src

\* C7: every export of a run uses the transform
\* (resample_resolution, 0, lon_min, 0, -resample_resolution, lat_max):
\* the same for every scene, with zero shear and, when resample_resolution is
\* positive, a negative y_scale.
C7_OneTransformPerRun ==
    \A n \in LogIdx : IsOp(n, "export") =>
        /\ log[n].transform[1] = params.resample_resolution
        /\ log[n].transform[2] = 0
        /\ log[n].transform[3] = params.lon_min
        /\ log[n].transform[4] = 0
        /\ log[n].transform[5] = 0 - params.resample_resolution
        /\ log[n].transform[6] = params.lat_max
        /\ params.resample_resolution > 0 => log[n].transform[5] < 0
        /\ log[n].path \in DOMAIN files =>
              files[log[n].path].transform = log[n].transform
        /\ \A m \in LogIdx : IsOp(m, "export") =>
              log[m].transform = log[n].transform

\* C7 witness: two scenes were exported in a run with a positive resolution.
C7_Witness ==
    /\ params.resample_resolution > 0
    /\ \E n \in LogIdx : \E m \in LogIdx :
          n < m /\ IsOp(n, "export") /\ IsOp(m, "export")

\* C8: two distinct accepted scenes of a run are written to different paths,
\* and a run that ended without failure holds one file per accepted scene.
C8_OneFilePerAcceptedScene ==
    /\ \A n \in LogIdx : \A m \in LogIdx :
          (n < m /\ IsOp(n, "export") /\ IsOp(m, "export")) =>
              log[n].path # log[m].path
    /\ pc = "done" =>
          Cardinality(DOMAIN files)
              = Cardinality({n \in LogIdx : IsOp(n, "export")})

\* C9: the coverage of each candidate is counted on the first entry of the
\* band list, and the evaluation does not fail for want of a band.
C9_ReferenceBandIsFirstBand ==
    \A n \in LogIdx :
        /\ IsOp(n, "evaluate") => log[n].band = params.bands[1]
        /\ IsOp(n, "raise") => log[n].error # "EEException: no band"

\* The states of C10: a crop happens only with is_postprocess, directly after
\* the export of the same scene to the same path, and before anything else
\* when is_postprocess holds; a rejected scene is neither exported nor cropped.
C10_CropFollowsOwnExport ==
    \A n \in LogIdx :
        /\ IsCrop(n) =>
              /\ params.is_postprocess
              /\ n > 1
              /\ IsOp(n - 1, "export")
              /\ log[n - 1].idx = log[n].idx
              /\ log[n - 1].path = log[n].path
        /\ (IsOp(n, "export") /\ n < Len(log)) =>
              IF params.is_postprocess
              THEN IsCrop(n + 1) /\ log[n + 1].idx = log[n].idx
              ELSE ~IsCrop(n + 1) /\ log[n + 1].idx > log[n].idx
        /\ IsOp(n, "reject") =>
              \A m \in LogIdx :
                  (IsOp(m, "export") \/ IsCrop(m)) => log[m].idx # log[n].idx

\* The steps of C10: evaluating, accepting or rejecting a scene creates and
\* modifies no file.
C10_DecisionTouchesNoFile ==
    (Len(log') = Len(log) + 1
        /\ log'[Len(log')].op \in {"evaluate", "accept", "reject"})
    => files' = files

\* C10: in every run a crop happens only when is_postprocess is true, only
\* after the export of the same scene has returned, and before the next
\* candidate is evaluated; a rejected scene is never exported or cropped and
\* no file is created or modified for it.
C10_PostProcessOnlyAfterExport ==
    [](C10_CropFollowsOwnExport) /\ [][C10_DecisionTouchesNoFile]_vars

\* C10 witness: a scene was rejected, a later one exported and cropped, and
\* the loop has ended.
C10_Witness ==
    /\ pc = "done"
    /\ \E n \in LogIdx : \E m \in LogIdx :
          n < m /\ IsOp(n, "reject") /\ IsOp(m, "postprocess")

====
